---- MODULE Spec2Model ----
(***************************************************************************)
(* State-machine model of the meegsim tutorial repository.                 *)
(*                                                                         *)
(*   SpecHelpers  calls of the helper functions of meegsim_tutorial        *)
(*                (FILL_ME, vertno_to_index, get_leadfield, show_sources)  *)
(*                on source spaces and lead fields drawn from bounded sets *)
(*   Spec         a run of one of the tutorial scripts: the module is      *)
(*                loaded statement by statement, then the main sequence    *)
(*                of 01_demo/demo.py runs step by step                     *)
(*   SpecFair     Spec with weak fairness of its steps, for termination    *)
(*   SpecInstall  a run of main() of 00_test_install/test_install.py, in   *)
(*                which any library call may raise                         *)
(*   SpecUtils    one call of info_from_montage, prepare_head_model,       *)
(*                get_times or simulate_point                              *)
(*                                                                         *)
(* Python values are modelled by what the interpreter does with them: a    *)
(* call either returns a value or raises an exception, numpy arrays carry  *)
(* their shape, positions in arrays are 0-based as in numpy.               *)
(***************************************************************************)
EXTENDS Integers, Sequences, FiniteSets, TLC

VARIABLES
    \* ---- helper calls (SpecHelpers) ----
    fwd,        \* the forward model: [src |-> source space, sol |-> [data |-> L]]
    call,       \* the call being made: [fn |-> name, ...arguments]
    result,     \* its outcome: Pending, Return(v) or Raise(exc, msg)
    brain,      \* show_sources: the foci added to the brain so far
    i_source,   \* show_sources: number of sources the loop has gone through
    \* ---- a script run (Spec) ----
    script,     \* which script runs
    filled,     \* has the user replaced the download_path placeholder
    complete,   \* the `complete` default of every skippable demo step
    pc,         \* position of the interpreter
    cur,        \* the demo step being executed, its position in the body
    out,        \* what the run has done so far: prints, plots, prompts
    bound,      \* module-level names that are bound
    called,     \* the demo steps called so far, in order
    executed,   \* the demo steps whose body has started, in order
    status,     \* how the process ended: Running, Exited(0), Failed(exc)
    environ,    \* os.environ of the process: the variables that are set
    frame       \* the local variables of the utility function being executed

helperVars == <<fwd, call, result, brain, i_source>>
scriptVars == <<script, filled, complete, pc, cur, out, bound, called, executed, status,
                environ, frame>>
vars == <<fwd, call, result, brain, i_source,
          script, filled, complete, pc, cur, out, bound, called, executed, status,
          environ, frame>>

(***************************************************************************)
(* Bounds of the model                                                     *)
(***************************************************************************)
MaxVertno == 2      \* vertex numbers are 0..MaxVertno
MaxSourceLen == 2   \* a source (or a list of sources) has 1..MaxSourceLen vertices
NChannels == 2      \* rows of the lead field matrix

(***************************************************************************)
(* Python outcomes                                                         *)
(***************************************************************************)
Pending == [kind |-> "pending"]
Return(v) == [kind |-> "return", value |-> v]
Raise(exc, msg) == [kind |-> "raise", exc |-> exc, msg |-> msg]

\* sum of a sequence of integers
RECURSIVE SeqSum(_)
SeqSum(s) == IF s = <<>> THEN 0 ELSE Head(s) + SeqSum(Tail(s))

RECURSIVE Gcd(_, _)
Gcd(a, b) == IF b = 0 THEN a ELSE Gcd(b, a % b)

Abs(x) == IF x < 0 THEN -x ELSE x

\* the exact quotient n / d (d > 0) in lowest terms
Frac(n, d) ==
    LET g == Gcd(Abs(n), d)
    IN  [num |-> n \div g, den |-> d \div g]

(***************************************************************************)
(* utils.py: FILL_ME                                                       *)
(***************************************************************************)
FILL_ME_returns(msg) == Return(msg)

FILL_ME(msg) == Raise("NotImplementedError", msg)

(***************************************************************************)
(* utils.py: vertno_to_index                                               *)
(***************************************************************************)
hemis == <<"lh", "rh">>

\* list.index for the two-element list hemis, 0-based
hemis_index(hemi) == IF hemi = hemis[1] THEN 0 ELSE 1

\* np.where(arr == v)[0]: the 0-based positions of v in arr, ascending
RECURSIVE np_where_from(_, _, _)
np_where_from(arr, v, k) ==
    IF k > Len(arr) THEN <<>>
    ELSE (IF arr[k] = v THEN <<k - 1>> ELSE <<>>) \o np_where_from(arr, v, k + 1)

np_where(arr, v) == np_where_from(arr, v, 1)

NotInSrcMsg == "The provided vertno does not belong to the provided src. Please pick another vertex."

\* src is a pair of hemispheres src[0], src[1], kept here as s[1], s[2]
vertno_to_index_no_offset(s, hemi, vertno) ==
    IF hemi \notin {hemis[1], hemis[2]}
    THEN Raise("AssertionError", "")
    ELSE LET hemi_idx == hemis_index(hemi)
             vert_idx == np_where(s[hemi_idx + 1].vertno, vertno)
         IN  IF Len(vert_idx) = 0
             THEN Raise("ValueError", NotInSrcMsg)
             ELSE Return(vert_idx[1])

vertno_to_index_any_hemi(s, hemi, vertno) ==
    IF hemi \notin {hemis[1], hemis[2]}
    THEN Raise("AssertionError", "")
    ELSE LET vert_lh == np_where(s[1].vertno, vertno)
             vert_rh == np_where(s[2].vertno, vertno)
         IN  IF Len(vert_lh) = 0 /\ Len(vert_rh) = 0
             THEN Raise("ValueError", NotInSrcMsg)
             ELSE IF hemi = "lh"
                  THEN Return(IF Len(vert_lh) > 0 THEN vert_lh[1] ELSE vert_rh[1])
                  ELSE Return(s[1].nuse
                              + (IF Len(vert_rh) > 0 THEN vert_rh[1] ELSE vert_lh[1]))

\* vertno ranges over integer vertex numbers, on which int(vertno) keeps the value
vertno_to_index(s, hemi, vertno) ==
    IF hemi \notin {hemis[1], hemis[2]}
    THEN Raise("AssertionError", "")
    ELSE LET hemi_idx == hemis_index(hemi)
             vert_idx == np_where(s[hemi_idx + 1].vertno, vertno)
         IN  IF Len(vert_idx) = 0
             THEN Raise("ValueError", NotInSrcMsg)
             ELSE IF hemi = "lh"
                  THEN Return(vert_idx[1])
                  ELSE Return(s[1].nuse + vert_idx[1])

(***************************************************************************)
(* numpy arrays: [shape |-> <<n_1, ..., n_d>>, data |-> nested sequences]  *)
(***************************************************************************)
ndim(a) == Len(a.shape)

\* L[:, indices] with a list of 0-based column indices: always two-dimensional
np_take_columns(L, indices) ==
    [shape |-> <<L.shape[1], Len(indices)>>,
     data  |-> [c \in 1..L.shape[1] |->
                   [k \in 1..Len(indices) |-> L.data[c][indices[k] + 1]]]]

\* a.sum(axis=1) of a two-dimensional array, as exact fractions
np_sum_axis1(a) ==
    [shape |-> <<a.shape[1]>>,
     data  |-> [c \in 1..a.shape[1] |-> Frac(SeqSum(a.data[c]), 1)]]

\* a.mean(axis=0) of a two-dimensional array
np_mean_axis0(a) ==
    [shape |-> <<a.shape[2]>>,
     data  |-> [k \in 1..a.shape[2] |->
                   Frac(SeqSum([c \in 1..a.shape[1] |-> a.data[c][k]]), a.shape[1])]]

\* a.mean(axis=1) of a two-dimensional array
np_mean_axis1(a) ==
    [shape |-> <<a.shape[1]>>,
     data  |-> [c \in 1..a.shape[1] |-> Frac(SeqSum(a.data[c]), a.shape[2])]]

(***************************************************************************)
(* ext.py: get_leadfield                                                   *)
(***************************************************************************)
\* the list comprehension over source.vertices: the first failing lookup
\* raises out of it
RECURSIVE leadfield_indices(_, _)
leadfield_indices(s, vertices) ==
    IF vertices = <<>> THEN Return(<<>>)
    ELSE LET hemi_idx == Head(vertices)[1]
             vertno   == Head(vertices)[2]
             first    == vertno_to_index(s, hemis[hemi_idx + 1], vertno)
         IN  IF first.kind = "raise" THEN first
             ELSE LET rest == leadfield_indices(s, Tail(vertices))
                  IN  IF rest.kind = "raise" THEN rest
                      ELSE Return(<<first.value>> \o rest.value)

get_leadfield(f, source) ==
    LET s       == f.src
        L       == f.sol.data
        indices == leadfield_indices(s, source.vertices)
    IN  IF indices.kind = "raise" THEN indices
        ELSE LET leadfield == np_take_columns(L, indices.value)
             IN  IF ndim(leadfield) > 1
                 THEN Return(np_mean_axis1(leadfield))
                 ELSE Return(leadfield)

(***************************************************************************)
(* viz.py: show_sources                                                    *)
(***************************************************************************)
\* a new brain has no foci
fsaverage_brain == <<>>

add_foci(b, vertno, hemi) == Append(b, [vertno |-> vertno, hemi |-> hemi])

\* one pass of the loop body of show_sources without the membership check
show_sources_body_unchecked(s, b, hemi_idx, vertno) ==
    LET hemi == IF hemi_idx # 0 THEN "rh" ELSE "lh"
    IN  [raised |-> Pending, brain |-> add_foci(b, vertno, hemi)]

\* one pass of the loop body of show_sources
show_sources_body(s, b, hemi_idx, vertno) ==
    LET hemi  == IF hemi_idx # 0 THEN "rh" ELSE "lh"
        check == vertno_to_index(s, hemi, vertno)
    IN  IF check.kind = "raise"
        THEN [raised |-> check, brain |-> b]
        ELSE [raised |-> Pending, brain |-> add_foci(b, vertno, hemi)]

(***************************************************************************)
(* Inputs of the helper calls                                              *)
(***************************************************************************)
Vertnos == 0..MaxVertno

RECURSIVE SortedSeq(_)
SortedSeq(S) ==
    IF S = {} THEN <<>>
    ELSE LET m == CHOOSE x \in S : \A y \in S : x <= y
         IN  <<m>> \o SortedSeq(S \ {m})

\* one hemisphere of a source space: vertno is sorted and unique, nuse its length
Hemisphere(S) == [vertno |-> SortedSeq(S), nuse |-> Cardinality(S)]

SourceSpaces ==
    { <<Hemisphere(A), Hemisphere(B)>> :
        A \in (SUBSET Vertnos) \ {{}}, B \in (SUBSET Vertnos) \ {{}} }

\* sample lead fields with n_cols columns: integer entries, both signs
LeadFieldSample(k, n_cols) ==
    [shape |-> <<NChannels, n_cols>>,
     data  |-> [c \in 1..NChannels |->
                   [j \in 1..n_cols |-> (2 * c + k) * j * j - 3 * k * c]]]

Forwards ==
    { [src |-> s, sol |-> [data |-> LeadFieldSample(k, s[1].nuse + s[2].nuse)]] :
        s \in SourceSpaces, k \in 1..2 }

Locations == {0, 1} \X Vertnos

\* non-empty lists of (hemi_idx, vertno) of length up to MaxSourceLen
LocationLists ==
    UNION { [1..n -> Locations] : n \in 1..MaxSourceLen }

Hemis == {"lh", "rh", "both"}

Messages ==
    {"Provide the same value for path as the one you used during the installation check.",
     "Implement the simulation of one point source",
     "Implement the simulation of one patch source",
     ""}

NoCall == [fn |-> "none"]

(***************************************************************************)
(* SpecHelpers: one helper call on a forward model drawn from Forwards     *)
(***************************************************************************)
Running == [kind |-> "running"]

\* no utility function is being executed
NoFrame == [fn |-> "none"]

\* no script is running
ScriptIdle ==
    /\ script = "none"
    /\ filled = FALSE
    /\ complete = <<>>
    /\ pc = <<"idle", 0>>
    /\ cur = <<"none", 0>>
    /\ out = <<>>
    /\ bound = {}
    /\ called = <<>>
    /\ executed = <<>>
    /\ status = Running
    /\ environ = [HOME |-> "/home/user"]
    /\ frame = NoFrame

InitHelpers ==
    /\ fwd \in Forwards
    /\ call = NoCall
    /\ result = Pending
    /\ brain = <<>>
    /\ i_source = 0
    /\ ScriptIdle

call_FILL_ME(msg) ==
    /\ call = NoCall
    /\ call' = [fn |-> "FILL_ME", msg |-> msg]
    /\ result' = FILL_ME(msg)
    /\ UNCHANGED <<fwd, brain, i_source>>
    /\ UNCHANGED scriptVars

call_vertno_to_index(hemi, vertno) ==
    /\ call = NoCall
    /\ call' = [fn |-> "vertno_to_index", hemi |-> hemi, vertno |-> vertno]
    /\ result' = vertno_to_index(fwd.src, hemi, vertno)
    /\ UNCHANGED <<fwd, brain, i_source>>
    /\ UNCHANGED scriptVars

call_get_leadfield(vertices) ==
    /\ call = NoCall
    /\ call' = [fn |-> "get_leadfield", source |-> [vertices |-> vertices]]
    /\ result' = get_leadfield(fwd, [vertices |-> vertices])
    /\ UNCHANGED <<fwd, brain, i_source>>
    /\ UNCHANGED scriptVars

\* show_sources is entered: the brain is created
show_sources_begin(sources) ==
    /\ call = NoCall
    /\ call' = [fn |-> "show_sources", sources |-> sources]
    /\ brain' = fsaverage_brain
    /\ i_source' = 0
    /\ UNCHANGED <<fwd, result>>
    /\ UNCHANGED scriptVars

\* one pass of the loop over sources
show_sources_next ==
    /\ call.fn = "show_sources"
    /\ result = Pending
    /\ i_source < Len(call.sources)
    /\ LET source == call.sources[i_source + 1]
           pass   == show_sources_body(fwd.src, brain, source[1], source[2])
       IN  /\ brain' = pass.brain
           /\ result' = pass.raised
           /\ i_source' = IF pass.raised.kind = "raise" THEN i_source ELSE i_source + 1
    /\ UNCHANGED <<fwd, call>>
    /\ UNCHANGED scriptVars

\* the loop is over: the brain is returned
show_sources_return ==
    /\ call.fn = "show_sources"
    /\ result = Pending
    /\ i_source = Len(call.sources)
    /\ result' = Return(brain)
    /\ UNCHANGED <<fwd, call, brain, i_source>>
    /\ UNCHANGED scriptVars

NextHelpers ==
    \/ \E msg \in Messages : call_FILL_ME(msg)
    \/ \E hemi \in Hemis, vertno \in Vertnos : call_vertno_to_index(hemi, vertno)
    \/ \E vertices \in LocationLists : call_get_leadfield(vertices)
    \/ \E sources \in LocationLists : show_sources_begin(sources)
    \/ show_sources_next
    \/ show_sources_return

SpecHelpers == InitHelpers /\ [][NextHelpers]_vars

(***************************************************************************)
(* Properties of the helper calls                                          *)
(***************************************************************************)
Elems(seq) == { seq[k] : k \in 1..Len(seq) }

\* the vertno array of the hemisphere named hemi
VertnoOf(hemi) == IF hemi = "lh" THEN fwd.src[1].vertno ELSE fwd.src[2].vertno

\* the 0-based position of v in the array arr that contains it
PositionIn(arr, v) == (CHOOSE k \in 1..Len(arr) : arr[k] = v) - 1

\* C1: FILL_ME(msg) never returns a value: whatever msg is, the call raises
\* NotImplementedError and the error carries msg as its message.
C1_FillMeAlwaysRaises ==
    call.fn = "FILL_ME" =>
        /\ result.kind = "raise"
        /\ result.exc = "NotImplementedError"
        /\ result.msg = call.msg

C1_Witness ==
    /\ call.fn = "FILL_ME"
    /\ call.msg = "Implement the simulation of one point source"
    /\ result.kind = "raise"

\* C5: for a vertex of the requested hemisphere, vertno_to_index returns its
\* position in src[0]["vertno"] for "lh" and src[0]["nuse"] plus its position
\* in src[1]["vertno"] for "rh".
C5_IndexOfVertex ==
    (/\ call.fn = "vertno_to_index"
     /\ call.hemi \in {"lh", "rh"}
     /\ call.vertno \in Elems(VertnoOf(call.hemi)))
    => result = Return((IF call.hemi = "lh" THEN 0 ELSE fwd.src[1].nuse)
                       + PositionIn(VertnoOf(call.hemi), call.vertno))

\* C5: the call leaves src as it was.
C5_SrcNotModified == [][fwd' = fwd]_vars

\* C5: both parts together.
C5_VertnoToIndex == []C5_IndexOfVertex /\ C5_SrcNotModified

\* a right-hemisphere vertex whose index differs from its position
C5_Witness ==
    /\ call.fn = "vertno_to_index"
    /\ call.hemi = "rh"
    /\ result.kind = "return"
    /\ result.value = fwd.src[1].nuse + PositionIn(fwd.src[2].vertno, call.vertno)
    /\ PositionIn(fwd.src[2].vertno, call.vertno) > 0

\* C6: when vertno is not in the vertno array of the requested hemisphere,
\* also when the other hemisphere has it, vertno_to_index raises ValueError
\* and returns no index.
C6_ValueErrorOutsideHemisphere ==
    (/\ call.fn = "vertno_to_index"
     /\ call.hemi \in {"lh", "rh"}
     /\ call.vertno \notin Elems(VertnoOf(call.hemi)))
    => result = Raise("ValueError", NotInSrcMsg)

\* the vertex belongs to the other hemisphere only
C6_Witness ==
    /\ call.fn = "vertno_to_index"
    /\ call.hemi = "lh"
    /\ call.vertno \notin Elems(fwd.src[1].vertno)
    /\ call.vertno \in Elems(fwd.src[2].vertno)
    /\ result.kind = "raise"

\* the lead-field columns of the vertices of a source
ColumnsOf(vertices) ==
    [k \in 1..Len(vertices) |->
        vertno_to_index(fwd.src, hemis[vertices[k][1] + 1], vertices[k][2]).value]

\* every vertex of the list belongs to src in its hemisphere
AllInSrc(vertices) ==
    \A k \in 1..Len(vertices) :
        vertices[k][2] \in Elems(fwd.src[vertices[k][1] + 1].vertno)

\* C7: for every channel c the result of get_leadfield is the mean of
\* L[c, column of v] over the vertices v of the source; with a single vertex
\* it is that column of L.
C7_LeadfieldIsColumnMean ==
    (/\ call.fn = "get_leadfield"
     /\ AllInSrc(call.source.vertices))
    => /\ result.kind = "return"
       /\ LET vertices == call.source.vertices
              n        == Len(vertices)
              cols     == ColumnsOf(vertices)
              L        == fwd.sol.data.data
          IN  \A c \in 1..NChannels :
                /\ result.value.data[c].den > 0
                /\ result.value.data[c].num * n
                     = result.value.data[c].den
                         * SeqSum([k \in 1..n |-> L[c][cols[k] + 1]])
                /\ n = 1 => result.value.data[c] = [num |-> L[c][cols[1] + 1], den |-> 1]

\* a patch of two different columns whose mean is not an integer
C7_Witness ==
    /\ call.fn = "get_leadfield"
    /\ Len(call.source.vertices) = 2
    /\ result.kind = "return"
    /\ \E c \in 1..NChannels : result.value.data[c].den = 2

\* C8: whenever get_leadfield returns, the result is one-dimensional with one
\* entry per row of fwd["sol"]["data"], for a point as for a patch.
C8_LeadfieldShape ==
    (call.fn = "get_leadfield" /\ result.kind = "return")
    => /\ ndim(result.value) = 1
       /\ result.value.shape = <<fwd.sol.data.shape[1]>>
       /\ Len(result.value.data) = fwd.sol.data.shape[1]

\* a single-vertex source
C8_Witness ==
    /\ call.fn = "get_leadfield"
    /\ Len(call.source.vertices) = 1
    /\ result.kind = "return"
    /\ result.value.shape = <<NChannels>>

\* C9: show_sources adds a focus only for a vertex that belongs to src in its
\* hemisphere: the foci are the sources gone through so far, all of them in
\* src; the first source outside src raises ValueError and gets no focus.
C9_OnlySrcVerticesPlotted ==
    call.fn = "show_sources" =>
        /\ Len(brain) = i_source
        /\ \A k \in 1..Len(brain) :
             /\ brain[k].vertno = call.sources[k][2]
             /\ brain[k].hemi = hemis[call.sources[k][1] + 1]
             /\ brain[k].vertno \in Elems(VertnoOf(brain[k].hemi))
        /\ result.kind = "raise" =>
             /\ result.exc = "ValueError"
             /\ call.sources[i_source + 1][2]
                  \notin Elems(fwd.src[call.sources[i_source + 1][1] + 1].vertno)
        /\ result.kind = "return" => AllInSrc(call.sources)

\* the second source is outside src: one focus was added, then ValueError
C9_Witness ==
    /\ call.fn = "show_sources"
    /\ Len(call.sources) = 2
    /\ Len(brain) = 1
    /\ result.kind = "raise"

(***************************************************************************)
(* The scripts: what a statement does                                      *)
(***************************************************************************)
Exited(code) == [kind |-> "exited", code |-> code]
Failed(exc) == [kind |-> "failed", exc |-> exc]

P(text) == [op |-> "print", arg |-> text]
Div == [op |-> "divider", arg |-> "----------------------------------------"]
Lib(name) == [op |-> "call", arg |-> name]
Plot(name) == [op |-> "plot", arg |-> name]
Input == [op |-> "input", arg |-> "Press any key to continue"]
Exit0 == [op |-> "exit", arg |-> "0"]

\* the names a module of meegsim_tutorial offers for import
Exports(module) ==
    CASE module = "meegsim_tutorial.utils" ->
           {"emoji", "mne", "np", "Path", "print_emoji", "divider", "FILL_ME",
            "info_from_montage", "vertno_to_index", "prepare_head_model"}
      [] module = "meegsim_tutorial.ext" ->
           {"vertno_to_index", "get_leadfield"}
      [] module = "meegsim_tutorial.viz" ->
           {"plt", "mne", "np", "welch", "vertno_to_index", "fsaverage_brain",
            "show_sources", "show_waveforms", "show_leadfield"}

Import(module, names) == [op |-> "import", module |-> module, names |-> names]
Placeholder(target, msg) == [op |-> "placeholder", target |-> target, msg |-> msg]
Assign(target) == [op |-> "assign", target |-> target]
Fetch(target) == [op |-> "fetch", target |-> target]
Defs(names) == [op |-> "def", names |-> names]
Main == [op |-> "main"]

SamePathMsg == "Provide the same value for path as the one you used during the installation check."

\* 01_demo/demo.py, top-level statements
DemoStatements ==
    << Import("meegsim_tutorial.utils", {"divider", "info_from_montage", "FILL_ME"}),
       Import("meegsim_tutorial.viz", {"show_sources", "show_waveforms", "show_leadfield"}),
       Placeholder("download_path", SamePathMsg),
       Assign("subject"),
       Assign("subjects_dir"),
       Fetch("fs_dir"),
       Defs({"step1_1_create_source_space", "step1_2_inspect_source_space",
             "step1_3_select_random", "step2_1_create_chanlocs",
             "step2_2_inspect_chanlocs", "step2_3_create_forward",
             "step2_4_inspect_leadfield", "get_times", "step3_1_background_noise",
             "step3_2_oscillatory_activity", "step4_1_general_workflow",
             "step4_2_inspect_source_configuration", "step4_3_obtain_data",
             "step4_4_adjust_snr", "step5_1_constant_phase_lag",
             "step5_2_weak_synchronization", "step5_3_adding_to_simulation",
             "step6_summary"}),
       Main >>

\* 02_hands_on/patch_cancellation/patch_cancellation.py, top-level statements
PatchCancellationStatements ==
    << Import("meegsim_tutorial.ext", {"get_leadfield"}),
       Import("meegsim_tutorial.utils", {"FILL_ME", "prepare_head_model"}),
       Import("meegsim_tutorial.viz", {"make_cropped_screenshot"}),
       Placeholder("download_path", SamePathMsg),
       Assign("subjects_dir"),
       Defs({"simulate_point", "simulate_patch", "main"}),
       Main >>

\* 00_test_install/test_install.py and _solutions/00_test_install/test_install.py,
\* top-level statements
TestInstallStatements ==
    << Import("meegsim_tutorial.utils", {"print_emoji"}),
       Defs({"main"}),
       Main >>

Statements(sc) ==
    CASE sc = "demo" -> DemoStatements
      [] sc = "patch_cancellation" -> PatchCancellationStatements
      [] OTHER -> TestInstallStatements

(***************************************************************************)
(* 01_demo/demo.py: the steps                                              *)
(***************************************************************************)
\* get_times called with its default complete=False
get_times_effects ==
    << Lib("np.arange"), Div, P("First 10 time points:"), P("times[:10]"), Div >>

Body_step1_1 == << Lib("mne.setup_source_space") >>

Body_step1_2 ==
    << Div, P("Short description of the source space structure:"), P("src"), Div,
       Div, P("Description of the source space for left hemisphere:"), P("src[0]"), Div,
       Plot("mne.viz.plot_alignment"),
       Div, P("Indices of vertices in the left hemisphere:"), P("src[0][vertno]"),
       P("NOTE: the indices are not guaranteed to be continuous (e.g., for the oct6 spacing)"),
       Div,
       Plot("show_sources"),
       Input,
       P("Step 1.2 is complete, please set complete to True after finishing the exercises"),
       Exit0 >>

\* show_sources is called before the first prompt
Body_step1_3_plot_first ==
    << Div, P("Randomly selected vertices:"), Lib("select_random"),
       P("select_random(src, n=10)"), Div,
       Lib("select_random"), Plot("show_sources"),
       Input,
       Input,
       P("Step 1.3 is complete, please set complete to True"),
       Exit0 >>

Body_step1_3 ==
    << Div, P("Randomly selected vertices:"), Lib("select_random"),
       P("select_random(src, n=10)"), Div,
       Input,
       Lib("select_random"), Plot("show_sources"),
       Input,
       P("Step 1.3 is complete, please set complete to True"),
       Exit0 >>

Body_step2_1 == << Lib("info_from_montage") >>

Body_step2_2 ==
    << Plot("plt.subplots"), Plot("info.plot_sensors"),
       Input,
       P("Step 2.2 is complete, please set complete to True"),
       Exit0 >>

Body_step2_3 ==
    << Lib("mne.make_forward_solution"), Lib("mne.convert_forward_solution") >>

Body_step2_4 ==
    << P("L.shape"),
       Plot("show_sources"), Plot("show_leadfield"), Plot("plt.show"),
       Input,
       P("Step 2.4 is complete, please set complete to True"),
       Exit0 >>

Body_step3_1 ==
    get_times_effects \o
    << Lib("one_over_f_noise"), Lib("one_over_f_noise"), Lib("white_noise"),
       Plot("show_waveforms"), Plot("plt.show"),
       Input,
       P("Step 3.1 is complete, please set complete to True"),
       Exit0 >>

Body_step3_2 ==
    get_times_effects \o
    << Lib("narrowband_oscillation"), Lib("narrowband_oscillation"),
       Plot("show_waveforms"), Plot("plt.show"),
       Input,
       P("Step 3.2 is complete, please set complete to True"),
       Exit0 >>

Body_step4_1 ==
    get_times_effects \o
    << Lib("narrowband_oscillation"), Lib("narrowband_oscillation"),
       Lib("SourceSimulator"), Lib("sim.add_point_sources"),
       Lib("sim.add_noise_sources"), Lib("sim.simulate") >>

Body_step4_2 ==
    << Div, P("Simulated sources"), P("sc._sources"), Div,
       Div, P("Simulated NOISE sources"), P("sc._noise_sources"), Div,
       Plot("sc.plot"),
       Div, P("Accessing individual sources"), P("sc[m1-lh]"), Div,
       Plot("show_waveforms"), Plot("plt.show"),
       Input,
       P("Step 4.2 is complete, please set complete to True once done with the exercise"),
       Exit0 >>

Body_step4_3 ==
    << Lib("sc.to_stc"),
       Div, P("Resulting stc:"), P("stc"), Div,
       Plot("stc.plot"),
       Lib("sc.to_raw"),
       Plot("raw.plot"), Plot("raw.compute_psd.plot"), Plot("plt.show"),
       Input,
       P("Step 4.3 is complete, please set complete to True"),
       Exit0 >>

Body_step4_4 ==
    << Lib("sim.simulate"), Lib("sc.to_raw"), Plot("raw.compute_psd.plot"),
       Input,
       P("Step 4.4 is complete, please set complete to True"),
       Exit0 >>

Body_step5_1 ==
    get_times_effects \o
    << Lib("narrowband_oscillation"), Lib("ppc_constant_phase_shift"),
       Plot("show_waveforms"), Plot("plt.show"),
       Input,
       P("Step 5.1 is complete, please set complete to True once done with the exercise"),
       Exit0 >>

Body_step5_2 ==
    get_times_effects \o
    << Lib("narrowband_oscillation"), Lib("ppc_shifted_copy_with_noise"),
       Plot("show_waveforms"), Plot("plt.show"),
       Input,
       P("Step 5.2 is complete, please set complete to True once done with the exercise"),
       Exit0 >>

Body_step5_3 ==
    << Lib("SourceSimulator"), Lib("sim.add_point_sources"),
       Lib("sim.add_noise_sources"), Lib("sim.set_coupling"), Lib("sim.simulate"),
       Plot("show_waveforms"), Plot("plt.show"),
       Input,
       P("Step 5.3 is complete, please set complete to True"),
       Exit0 >>

Body_step6 ==
    << Lib("SourceSimulator"), Lib("sim.add_noise_sources"),
       Lib("sim.add_point_sources"), Lib("sim.set_coupling"),
       Lib("sim.simulate"), Lib("sc.to_raw") >>

\* the statements of a step function after its `if complete: return`
StepBody_4_4_returns(step) ==
    CASE step = "step1_1_create_source_space" -> Body_step1_1
      [] step = "step1_2_inspect_source_space" -> Body_step1_2
      [] step = "step1_3_select_random" -> Body_step1_3
      [] step = "step2_1_create_chanlocs" -> Body_step2_1
      [] step = "step2_2_inspect_chanlocs" -> Body_step2_2
      [] step = "step2_3_create_forward" -> Body_step2_3
      [] step = "step2_4_inspect_leadfield" -> Body_step2_4
      [] step = "step3_1_background_noise" -> Body_step3_1
      [] step = "step3_2_oscillatory_activity" -> Body_step3_2
      [] step = "step4_1_general_workflow" -> Body_step4_1
      [] step = "step4_2_inspect_source_configuration" -> Body_step4_2
      [] step = "step4_3_obtain_data" -> Body_step4_3
      [] step = "step4_4_adjust_snr" -> SubSeq(Body_step4_4, 1, Len(Body_step4_4) - 1)
      [] step = "step5_1_constant_phase_lag" -> Body_step5_1
      [] step = "step5_2_weak_synchronization" -> Body_step5_2
      [] step = "step5_3_adding_to_simulation" -> Body_step5_3
      [] step = "step6_summary" -> Body_step6

StepBody(step) ==
    CASE step = "step1_1_create_source_space" -> Body_step1_1
      [] step = "step1_2_inspect_source_space" -> Body_step1_2
      [] step = "step1_3_select_random" -> Body_step1_3
      [] step = "step2_1_create_chanlocs" -> Body_step2_1
      [] step = "step2_2_inspect_chanlocs" -> Body_step2_2
      [] step = "step2_3_create_forward" -> Body_step2_3
      [] step = "step2_4_inspect_leadfield" -> Body_step2_4
      [] step = "step3_1_background_noise" -> Body_step3_1
      [] step = "step3_2_oscillatory_activity" -> Body_step3_2
      [] step = "step4_1_general_workflow" -> Body_step4_1
      [] step = "step4_2_inspect_source_configuration" -> Body_step4_2
      [] step = "step4_3_obtain_data" -> Body_step4_3
      [] step = "step4_4_adjust_snr" -> Body_step4_4
      [] step = "step5_1_constant_phase_lag" -> Body_step5_1
      [] step = "step5_2_weak_synchronization" -> Body_step5_2
      [] step = "step5_3_adding_to_simulation" -> Body_step5_3
      [] step = "step6_summary" -> Body_step6

\* the step functions that take `complete` and start with `if complete: return`
Skippable ==
    {"step1_2_inspect_source_space", "step1_3_select_random",
     "step2_2_inspect_chanlocs", "step2_4_inspect_leadfield",
     "step3_1_background_noise", "step3_2_oscillatory_activity",
     "step4_2_inspect_source_configuration", "step4_3_obtain_data",
     "step4_4_adjust_snr", "step5_1_constant_phase_lag",
     "step5_2_weak_synchronization", "step5_3_adding_to_simulation"}

\* the module-level names the call of a step binds in the main sequence
Returns(step) ==
    CASE step = "step1_1_create_source_space" -> {"src"}
      [] step = "step2_1_create_chanlocs" -> {"info"}
      [] step = "step2_3_create_forward" -> {"fwd"}
      [] step = "step4_1_general_workflow" -> {"sim", "sc"}
      [] OTHER -> {}

\* a mis-ordered main sequence: 2.3 is called before 2.2
MainSequence_swapped ==
    << "step1_1_create_source_space", "step1_2_inspect_source_space",
       "step1_3_select_random",
       "step2_1_create_chanlocs", "step2_3_create_forward",
       "step2_2_inspect_chanlocs", "step2_4_inspect_leadfield",
       "step3_1_background_noise", "step3_2_oscillatory_activity",
       "step4_1_general_workflow", "step4_2_inspect_source_configuration",
       "step4_3_obtain_data", "step4_4_adjust_snr",
       "step5_1_constant_phase_lag", "step5_2_weak_synchronization",
       "step5_3_adding_to_simulation",
       "step6_summary" >>

\* the calls under `if __name__ == "__main__":`, in the written order
MainSequence ==
    << "step1_1_create_source_space", "step1_2_inspect_source_space",
       "step1_3_select_random",
       "step2_1_create_chanlocs", "step2_2_inspect_chanlocs",
       "step2_3_create_forward", "step2_4_inspect_leadfield",
       "step3_1_background_noise", "step3_2_oscillatory_activity",
       "step4_1_general_workflow", "step4_2_inspect_source_configuration",
       "step4_3_obtain_data", "step4_4_adjust_snr",
       "step5_1_constant_phase_lag", "step5_2_weak_synchronization",
       "step5_3_adding_to_simulation",
       "step6_summary" >>

Congrats == P("Congrats, you've made it to the end of the demo! Thank you very much for participating!")

\* `if complete: return` of a step whose check is inverted
skips_inverted(step) == step \in Skippable /\ ~complete[step]

\* does the call of step return at its `if complete: return`
skips(step) == step \in Skippable /\ complete[step]

(***************************************************************************)
(* Spec: a run of a script                                                 *)
(***************************************************************************)
Scripts == {"demo", "patch_cancellation"}

NoForward == [src |-> <<>>, sol |-> [data |-> [shape |-> <<0, 0>>, data |-> <<>>]]]

\* no helper call is being followed
HelpersIdle ==
    /\ fwd = NoForward
    /\ call = NoCall
    /\ result = Pending
    /\ brain = <<>>
    /\ i_source = 0

NoStep == <<"none", 0>>
Done == <<"done", 0>>

\* the script as the user runs it: the placeholder replaced or not, any
\* choice of the `complete` defaults of the demo
Init ==
    /\ script \in Scripts
    /\ filled \in BOOLEAN
    /\ complete \in [Skippable -> BOOLEAN]
    /\ script # "demo" => complete = [step \in Skippable |-> FALSE]
    /\ pc = <<"load", 1>>
    /\ cur = NoStep
    /\ out = <<>>
    /\ bound = {}
    /\ called = <<>>
    /\ executed = <<>>
    /\ status = Running
    /\ environ = [HOME |-> "/home/user"]
    /\ frame = NoFrame
    /\ HelpersIdle

\* the interpreter executes the next top-level statement of the script
load_statement ==
    /\ pc[1] = "load"
    /\ status = Running
    /\ LET st == Statements(script)[pc[2]]
           next == <<"load", pc[2] + 1>>
       IN  CASE st.op = "import" ->
                  IF st.names \subseteq Exports(st.module)
                  THEN /\ bound' = bound \cup st.names
                       /\ pc' = next
                       /\ UNCHANGED <<out, status>>
                  ELSE /\ status' = Failed("ImportError")
                       /\ pc' = Done
                       /\ UNCHANGED <<out, bound>>
            [] st.op = "placeholder" ->
                  IF filled
                  THEN /\ bound' = bound \cup {st.target}
                       /\ pc' = next
                       /\ UNCHANGED <<out, status>>
                  ELSE LET r == FILL_ME(st.msg)
                       IN  IF r.kind = "raise"
                           THEN /\ status' = Failed(r.exc)
                                /\ pc' = Done
                                /\ UNCHANGED <<out, bound>>
                           ELSE /\ bound' = bound \cup {st.target}
                                /\ pc' = next
                                /\ UNCHANGED <<out, status>>
            [] st.op = "assign" ->
                  /\ bound' = bound \cup {st.target}
                  /\ pc' = next
                  /\ UNCHANGED <<out, status>>
            [] st.op = "fetch" ->
                  /\ out' = Append(out, Lib("fetch_fsaverage"))
                  /\ bound' = bound \cup {st.target}
                  /\ pc' = next
                  /\ UNCHANGED status
            [] st.op = "def" ->
                  /\ bound' = bound \cup st.names
                  /\ pc' = next
                  /\ UNCHANGED <<out, status>>
            [] st.op = "main" ->
                  /\ pc' = <<"main", 1>>
                  /\ UNCHANGED <<out, bound, status>>
    /\ UNCHANGED <<frame, environ, script, filled, complete, cur, called, executed>>
    /\ UNCHANGED helperVars

AtCall ==
    /\ script = "demo"
    /\ pc[1] = "main"
    /\ pc[2] <= Len(MainSequence)
    /\ cur = NoStep
    /\ status = Running

\* the next step of the main sequence is called and returns at once
skip_step ==
    /\ AtCall
    /\ skips(MainSequence[pc[2]])
    /\ called' = Append(called, MainSequence[pc[2]])
    /\ pc' = <<"main", pc[2] + 1>>
    /\ UNCHANGED <<frame, environ, script, filled, complete, cur, out, bound, executed, status>>
    /\ UNCHANGED helperVars

\* the next step of the main sequence is called and its body starts
enter_step ==
    /\ AtCall
    /\ ~skips(MainSequence[pc[2]])
    /\ called' = Append(called, MainSequence[pc[2]])
    /\ executed' = Append(executed, MainSequence[pc[2]])
    /\ cur' = <<MainSequence[pc[2]], 1>>
    /\ UNCHANGED <<frame, environ, script, filled, complete, pc, out, bound, status>>
    /\ UNCHANGED helperVars

InStep == cur # NoStep /\ status = Running

\* the next statement of the step: a print, a plot or a library call; past
\* the last statement the step returns to the main sequence
step_statement ==
    /\ InStep
    /\ LET body == StepBody(cur[1])
       IN  IF cur[2] > Len(body)
           THEN /\ bound' = bound \cup Returns(cur[1])
                /\ cur' = NoStep
                /\ pc' = <<"main", pc[2] + 1>>
                /\ UNCHANGED out
           ELSE /\ body[cur[2]].op \notin {"input", "exit"}
                /\ out' = Append(out, body[cur[2]])
                /\ cur' = <<cur[1], cur[2] + 1>>
                /\ UNCHANGED <<bound, pc>>
    /\ UNCHANGED <<frame, environ, script, filled, complete, called, executed, status>>
    /\ UNCHANGED helperVars

\* the step waits at input() and the user answers
answer_prompt ==
    /\ InStep
    /\ cur[2] <= Len(StepBody(cur[1]))
    /\ StepBody(cur[1])[cur[2]].op = "input"
    /\ out' = Append(out, StepBody(cur[1])[cur[2]])
    /\ cur' = <<cur[1], cur[2] + 1>>
    /\ UNCHANGED <<frame, environ, script, filled, complete, pc, bound, called, executed, status>>
    /\ UNCHANGED helperVars

\* exit(0): the process ends with status 0
step_exit ==
    /\ InStep
    /\ cur[2] <= Len(StepBody(cur[1]))
    /\ StepBody(cur[1])[cur[2]] = Exit0
    /\ out' = Append(out, Exit0)
    /\ status' = Exited(0)
    /\ cur' = NoStep
    /\ pc' = Done
    /\ UNCHANGED <<frame, environ, script, filled, complete, bound, called, executed>>
    /\ UNCHANGED helperVars

\* the script waits at an input() before the final message
print_congrats_prompts ==
    /\ script = "demo"
    /\ pc = <<"main", Len(MainSequence) + 1>>
    /\ cur = NoStep
    /\ status = Running
    /\ out' = out \o <<Input, Congrats>>
    /\ status' = Exited(0)
    /\ pc' = Done
    /\ UNCHANGED <<frame, environ, script, filled, complete, cur, bound, called, executed>>
    /\ UNCHANGED helperVars

\* after the last step the final message is printed and the script ends
print_congrats ==
    /\ script = "demo"
    /\ pc = <<"main", Len(MainSequence) + 1>>
    /\ cur = NoStep
    /\ status = Running
    /\ out' = Append(out, Congrats)
    /\ status' = Exited(0)
    /\ pc' = Done
    /\ UNCHANGED <<frame, environ, script, filled, complete, cur, bound, called, executed>>
    /\ UNCHANGED helperVars

Next ==
    \/ load_statement
    \/ skip_step
    \/ enter_step
    \/ step_statement
    \/ answer_prompt
    \/ step_exit
    \/ print_congrats

Spec == Init /\ [][Next]_vars

(***************************************************************************)
(* Properties of a script run                                              *)
(***************************************************************************)
\* the position of a step in a sequence of steps that contains it
IndexIn(seq, step) == CHOOSE k \in 1..Len(seq) : seq[k] = step

HasOp(op) == \E k \in 1..Len(out) : out[k].op = op

\* C2: a call of a skippable step whose `complete` is True returns at once:
\* nothing is printed or plotted, no prompt, no exit, no module-level name is
\* bound, no body starts, and the main sequence is at its next call.
C2_SkippedStepHasNoEffect ==
    [][ (/\ AtCall
         /\ MainSequence[pc[2]] \in Skippable
         /\ complete[MainSequence[pc[2]]])
        => (/\ out' = out
            /\ bound' = bound
            /\ status' = status
            /\ executed' = executed
            /\ cur' = NoStep
            /\ pc' = <<"main", pc[2] + 1>>) ]_vars

\* steps 1.2 and 1.3 were skipped and 2.1 is about to be called
C2_Witness ==
    /\ called = << "step1_1_create_source_space", "step1_2_inspect_source_space",
                   "step1_3_select_random" >>
    /\ executed = << "step1_1_create_source_space" >>
    /\ pc = <<"main", 4>>
    /\ ~HasOp("print") /\ ~HasOp("plot") /\ ~HasOp("input") /\ ~HasOp("exit")

\* C3: a skippable step whose body has started is the last step of the run
\* that executes, and once it is over the process has ended by exit(0) with
\* status 0.
C3_StepEndsWithExit ==
    \A k \in 1..Len(executed) :
        executed[k] \in Skippable =>
            /\ ~complete[executed[k]]
            /\ k = Len(executed)
            /\ cur[1] # executed[k] =>
                 /\ status = Exited(0)
                 /\ pc = Done
                 /\ out[Len(out)] = Exit0

\* step 4.4, the one step without plt.show, has stopped the program
C3_Witness ==
    /\ executed # <<>>
    /\ executed[Len(executed)] = "step4_4_adjust_snr"
    /\ cur = NoStep
    /\ status = Exited(0)

\* the order of the 17 steps as the claim gives it
ClaimedOrder ==
    << "step1_1_create_source_space", "step1_2_inspect_source_space",
       "step1_3_select_random", "step2_1_create_chanlocs",
       "step2_2_inspect_chanlocs", "step2_3_create_forward",
       "step2_4_inspect_leadfield", "step3_1_background_noise",
       "step3_2_oscillatory_activity", "step4_1_general_workflow",
       "step4_2_inspect_source_configuration", "step4_3_obtain_data",
       "step4_4_adjust_snr", "step5_1_constant_phase_lag",
       "step5_2_weak_synchronization", "step5_3_adding_to_simulation",
       "step6_summary" >>

ClaimedNonSkippable ==
    {"step1_1_create_source_space", "step2_1_create_chanlocs",
     "step2_3_create_forward", "step4_1_general_workflow", "step6_summary"}

\* C4: the steps are called in the written order 1.1 ... 6; a body executes
\* only if every skippable step before it has complete=True; the five
\* non-skippable steps execute whenever they are called; the final message
\* is printed only after all 17 calls, with all 12 skippable steps complete.
C4_FixedOrder ==
    /\ Len(ClaimedOrder) = 17
    /\ Cardinality(Elems(ClaimedOrder) \ ClaimedNonSkippable) = 12
    /\ Len(called) <= Len(ClaimedOrder)
    /\ called = SubSeq(ClaimedOrder, 1, Len(called))
    /\ \A k \in 1..Len(executed) :
         /\ executed[k] \in Elems(called)
         /\ \A j \in 1..(IndexIn(ClaimedOrder, executed[k]) - 1) :
              ClaimedOrder[j] \notin ClaimedNonSkippable => complete[ClaimedOrder[j]]
    /\ \A k \in 1..Len(called) :
         called[k] \in ClaimedNonSkippable => called[k] \in Elems(executed)
    /\ (\E k \in 1..Len(out) : out[k] = Congrats) =>
         /\ called = ClaimedOrder
         /\ \A step \in Elems(ClaimedOrder) \ ClaimedNonSkippable : complete[step]
         /\ executed = SelectSeq(ClaimedOrder, LAMBDA step : step \in ClaimedNonSkippable)

\* the run that skips all 12 steps and prints the final message
C4_Witness ==
    /\ out # <<>>
    /\ out[Len(out)] = Congrats
    /\ Len(executed) = 5
    /\ status = Exited(0)

\* C10: in an unmodified script the download_path placeholder stops the
\* loading with NotImplementedError: nothing is fetched, download_path is not
\* bound, no step and no main runs, and the script fails with that error only.
C10_PlaceholderStopsLoading ==
    (script \in {"demo", "patch_cancellation"} /\ ~filled) =>
        /\ ~(\E k \in 1..Len(out) : out[k] = Lib("fetch_fsaverage"))
        /\ "download_path" \notin bound
        /\ pc[1] # "main"
        /\ called = <<>>
        /\ status.kind # "exited"
        /\ status.kind = "failed" => status.exc = "NotImplementedError"

(***************************************************************************)
(* 00_test_install/test_install.py: main                                   *)
(***************************************************************************)
None == [type |-> "NoneType"]
Str(v) == [type |-> "str", value |-> v]

\* os.environ.get(key, default)
environ_get(key, default) ==
    IF key \in DOMAIN environ THEN Str(environ[key]) ELSE default

\* the plotting test runs when BUILD_ENV is "ci"
plotting_enabled_inverted == environ_get("BUILD_ENV", None) = Str("ci")

\* `if os.environ.get("BUILD_ENV", None) != "ci":`
plotting_enabled == environ_get("BUILD_ENV", None) # Str("ci")

\* print_emoji(text): the text is printed with its leading alias turned into an emoji
print_emoji(alias, text) == [op |-> "print", arg |-> text, emoji |-> alias]

InstallDownload(sc) ==
    << print_emoji(":down_arrow:", "Downloading and testing the template head model"),
       IF sc = "test_install" THEN Lib("fetch_fsaverage") ELSE Lib("sample.data_path"),
       Lib("mne.read_source_spaces"),
       print_emoji(":check_mark_button:", "Download complete!") >>

\* the success message comes before sim.simulate
InstallBasic_early_success ==
    << print_emoji(":gear:", "Testing basic functionality of MEEGsim"),
       Lib("SourceSimulator"), Lib("sim.add_noise_sources"),
       Lib("sim.add_point_sources"),
       print_emoji(":check_mark_button:", "Basic functionality is fine!"),
       Lib("sim.simulate") >>

InstallBasic ==
    << print_emoji(":gear:", "Testing basic functionality of MEEGsim"),
       Lib("SourceSimulator"), Lib("sim.add_noise_sources"),
       Lib("sim.add_point_sources"), Lib("sim.simulate"),
       print_emoji(":check_mark_button:", "Basic functionality is fine!") >>

InstallAdvanced ==
    << print_emoji(":gear:", "Testing advanced functionality of MEEGsim"),
       Lib("SourceSimulator"), Lib("sim.add_noise_sources"),
       Lib("sim.add_patch_sources"), Lib("sim.simulate"),
       print_emoji(":check_mark_button:", "Advanced functionality is fine!") >>

InstallPlotting ==
    << print_emoji(":gear:", "Testing that plotting works") >>
    \o (IF plotting_enabled
        THEN << Plot("sc.plot"), Plot("brain.screenshot"), Plot("brain.close"),
                Plot("plt.subplots"), Plot("ax.imshow"), Plot("ax.axis") >>
        ELSE <<>>)
    \o << print_emoji(":check_mark_button:", "Plotting is fine!") >>

InstallHappyEnd ==
    << print_emoji(":check_mark_button:", "Everything seems to work!") >>

\* the statements main() goes through in this environment
InstallMain(sc) ==
    InstallDownload(sc) \o InstallBasic \o InstallAdvanced \o InstallPlotting
    \o InstallHappyEnd

(***************************************************************************)
(* SpecInstall: a run of the installation check                            *)
(***************************************************************************)
InstallScripts == {"test_install", "solutions_test_install"}

\* BUILD_ENV unset, "ci", or something else
Environs ==
    { [HOME |-> "/home/user"] }
    \cup { [HOME |-> "/home/user", BUILD_ENV |-> v] : v \in {"ci", "CI", "local", ""} }

InitInstall ==
    /\ script \in InstallScripts
    /\ environ \in Environs
    /\ frame = NoFrame
    /\ filled = TRUE
    /\ complete = <<>>
    /\ pc = <<"load", 1>>
    /\ cur = NoStep
    /\ out = <<>>
    /\ bound = {}
    /\ called = <<>>
    /\ executed = <<>>
    /\ status = Running
    /\ HelpersIdle

InMain ==
    /\ script \in InstallScripts
    /\ pc[1] = "main"
    /\ status = Running

\* the next statement of main() is executed and returns; after the last one
\* main() returns and the script ends
install_statement ==
    /\ InMain
    /\ IF pc[2] > Len(InstallMain(script))
       THEN /\ status' = Exited(0)
            /\ pc' = Done
            /\ UNCHANGED out
       ELSE /\ out' = Append(out, InstallMain(script)[pc[2]])
            /\ pc' = <<"main", pc[2] + 1>>
            /\ UNCHANGED status
    /\ UNCHANGED <<frame, environ, script, filled, complete, cur, bound, called, executed>>
    /\ UNCHANGED helperVars

\* the library call main() is at raises: the installation is broken
install_raises ==
    /\ InMain
    /\ pc[2] <= Len(InstallMain(script))
    /\ InstallMain(script)[pc[2]].op \in {"call", "plot"}
    /\ status' = Failed("Exception")
    /\ pc' = Done
    /\ UNCHANGED <<frame, environ, script, filled, complete, cur, out, bound, called, executed>>
    /\ UNCHANGED helperVars

NextInstall ==
    \/ load_statement
    \/ install_statement
    \/ install_raises

SpecInstall == InitInstall /\ [][NextInstall]_vars

(***************************************************************************)
(* Properties of the installation check                                    *)
(***************************************************************************)
\* the messages of the run so far, in order
Printed == [k \in 1..Len(SelectSeq(out, LAMBDA e : e.op = "print")) |->
               SelectSeq(out, LAMBDA e : e.op = "print")[k].arg]

\* the position in out of a message that was printed
PrintedAt(text) == CHOOSE k \in 1..Len(out) : out[k].op = "print" /\ out[k].arg = text

WasPrinted(text) == \E k \in 1..Len(out) : out[k].op = "print" /\ out[k].arg = text

\* the library calls that returned between the positions a and b of out
ReturnedBetween(a, b) ==
    { out[k].arg : k \in { j \in (a + 1)..(b - 1) : out[j].op \in {"call", "plot"} } }

ClaimedInstallMessages ==
    << "Downloading and testing the template head model",
       "Download complete!",
       "Testing basic functionality of MEEGsim",
       "Basic functionality is fine!",
       "Testing advanced functionality of MEEGsim",
       "Advanced functionality is fine!",
       "Testing that plotting works",
       "Plotting is fine!",
       "Everything seems to work!" >>

\* the library calls of the stage whose start message is ClaimedInstallMessages[n]
StageCalls(n) ==
    CASE n = 1 -> {IF script = "test_install" THEN "fetch_fsaverage" ELSE "sample.data_path",
                   "mne.read_source_spaces"}
      [] n = 3 -> {"SourceSimulator", "sim.add_noise_sources", "sim.add_point_sources",
                   "sim.simulate"}
      [] n = 5 -> {"SourceSimulator", "sim.add_noise_sources", "sim.add_patch_sources",
                   "sim.simulate"}
      [] n = 7 -> IF "BUILD_ENV" \in DOMAIN environ /\ environ["BUILD_ENV"] = "ci"
                  THEN {}
                  ELSE {"sc.plot", "brain.screenshot", "brain.close",
                        "plt.subplots", "ax.imshow", "ax.axis"}

\* C11: the messages come in the fixed order; a success message is printed
\* only after every library call of its stage has returned; "Everything seems
\* to work!" is the last thing the run does, after the four success messages,
\* and is never printed in a run in which a call raised.
C11_InstallProgressOrder ==
    script \in InstallScripts =>
        /\ Len(Printed) <= Len(ClaimedInstallMessages)
        /\ Printed = SubSeq(ClaimedInstallMessages, 1, Len(Printed))
        /\ \A n \in {1, 3, 5, 7} :
             WasPrinted(ClaimedInstallMessages[n + 1]) =>
                 StageCalls(n) = ReturnedBetween(PrintedAt(ClaimedInstallMessages[n]),
                                                 PrintedAt(ClaimedInstallMessages[n + 1]))
        /\ WasPrinted("Everything seems to work!") =>
             /\ out[Len(out)].arg = "Everything seems to work!"
             /\ Len(Printed) = 9
             /\ status.kind # "failed"
        /\ status.kind = "failed" => ~WasPrinted("Everything seems to work!")
        /\ status = Exited(0) => WasPrinted("Everything seems to work!")

\* a run that went through all four stages
C11_Witness ==
    /\ script = "test_install"
    /\ status = Exited(0)
    /\ WasPrinted("Everything seems to work!")
    /\ Len(out) = 25

\* the value of BUILD_ENV is "ci"
BuildEnvIsCi == "BUILD_ENV" \in DOMAIN environ /\ environ["BUILD_ENV"] = "ci"

\* C18: with BUILD_ENV equal to "ci" the run makes no plotting call, and once
\* the advanced stage has succeeded nothing stands between the run and
\* "Plotting is fine!"; with any other value, or without the variable,
\* sc.plot, brain.screenshot and brain.close have returned in that order
\* before "Plotting is fine!" is printed.
C18_PlottingSkippedOnCi ==
    script \in InstallScripts =>
        /\ BuildEnvIsCi =>
             /\ \A k \in 1..Len(out) : out[k].op # "plot"
             /\ (status # Running /\ WasPrinted("Advanced functionality is fine!"))
                  => WasPrinted("Plotting is fine!")
        /\ (~BuildEnvIsCi /\ WasPrinted("Plotting is fine!")) =>
             \E i, j, k \in 1..Len(out) :
                 /\ i < j /\ j < k /\ k < PrintedAt("Plotting is fine!")
                 /\ PrintedAt("Testing that plotting works") < i
                 /\ out[i] = Plot("sc.plot")
                 /\ out[j] = Plot("brain.screenshot")
                 /\ out[k] = Plot("brain.close")

\* the check has passed on CI without a plot
C18_Witness ==
    /\ script \in InstallScripts
    /\ BuildEnvIsCi
    /\ status = Exited(0)
    /\ WasPrinted("Plotting is fine!")
    /\ \A k \in 1..Len(out) : out[k].op # "plot"

(***************************************************************************)
(* Termination of the demo                                                 *)
(***************************************************************************)
\* the interpreter keeps executing, every library call returns and the user
\* answers every prompt: a step that can be taken is eventually taken
SpecFair == Init /\ [][Next]_vars /\ WF_vars(Next)

AllComplete == \A step \in Skippable : complete[step]

\* the first skippable step of the written order whose complete is False
FirstIncomplete ==
    ClaimedOrder[CHOOSE k \in 1..Len(ClaimedOrder) :
                    /\ ClaimedOrder[k] \notin ClaimedNonSkippable
                    /\ ~complete[ClaimedOrder[k]]
                    /\ \A j \in 1..(k - 1) :
                         ClaimedOrder[j] \notin ClaimedNonSkippable => complete[ClaimedOrder[j]]]

\* how a run of the main sequence has ended
C14_HowItEnds ==
    (script = "demo" /\ filled) =>
        /\ AllComplete => ~HasOp("input")
        /\ status.kind # "failed"
        /\ status.kind = "exited" =>
             /\ status = Exited(0)
             /\ IF AllComplete
                THEN /\ out[Len(out)] = Congrats
                     /\ ~HasOp("exit")
                ELSE /\ executed[Len(executed)] = FirstIncomplete
                     /\ out[Len(out)] = Exit0
                     /\ \A k \in 1..Len(out) : out[k] # Congrats

\* C14: a run of the demo's main sequence always terminates, at the first
\* skippable step whose complete is False with exit status 0, or, with all 12
\* complete, after the final message and without ever waiting for input.
C14_DemoTerminates ==
    /\ (script = "demo" /\ filled) ~> (status.kind = "exited")
    /\ []C14_HowItEnds

\* the run that is stopped by step 5.3, the last skippable step
C14_Witness ==
    /\ script = "demo"
    /\ ~AllComplete
    /\ FirstIncomplete = "step5_3_adding_to_simulation"
    /\ status = Exited(0)

(***************************************************************************)
(* The prompts of the demo                                                 *)
(***************************************************************************)
\* the number X.Y of a step, as its messages give it
StepNumber(step) ==
    CASE step = "step1_2_inspect_source_space" -> "1.2"
      [] step = "step1_3_select_random" -> "1.3"
      [] step = "step2_2_inspect_chanlocs" -> "2.2"
      [] step = "step2_4_inspect_leadfield" -> "2.4"
      [] step = "step3_1_background_noise" -> "3.1"
      [] step = "step3_2_oscillatory_activity" -> "3.2"
      [] step = "step4_2_inspect_source_configuration" -> "4.2"
      [] step = "step4_3_obtain_data" -> "4.3"
      [] step = "step4_4_adjust_snr" -> "4.4"
      [] step = "step5_1_constant_phase_lag" -> "5.1"
      [] step = "step5_2_weak_synchronization" -> "5.2"
      [] step = "step5_3_adding_to_simulation" -> "5.3"

\* the forms of the "Step X is complete" message
CompleteMessages(step) ==
    { "Step " \o StepNumber(step) \o " is complete, please set complete to True" \o rest :
        rest \in {"", " after finishing the exercises", " once done with the exercise"} }

\* the positions of out at which a prompt was answered
PromptsAt == { k \in 1..Len(out) : out[k].op = "input" }

\* the number of input() calls the code of a step has
PromptsOf(step) ==
    Cardinality({ k \in 1..Len(StepBody(step)) : StepBody(step)[k].op = "input" })

\* C15: when a step has reached exit(0), every prompt of the step has been
\* answered before, and the "Step X is complete" message lies between the last
\* prompt and the exit; in step 1.3 show_sources is called after the first
\* prompt was answered and before the second one is.
C15_StopsGatedByInput ==
    (script = "demo" /\ executed # <<>>
       /\ executed[Len(executed)] \in (Elems(ClaimedOrder) \ ClaimedNonSkippable)) =>
        LET step == executed[Len(executed)]
        IN  /\ HasOp("exit") =>
                 /\ out[Len(out)] = Exit0
                 /\ PromptsAt # {}
                 /\ Cardinality(PromptsAt) = PromptsOf(step)
                 /\ out[Len(out) - 1].op = "print"
                 /\ out[Len(out) - 1].arg \in CompleteMessages(step)
                 /\ \A k \in PromptsAt : k < Len(out) - 1
            /\ \A k \in 1..Len(out) :
                 (out[k].op = "print" /\ out[k].arg \in CompleteMessages(step)) =>
                     Cardinality({ j \in PromptsAt : j < k }) = PromptsOf(step)
            /\ step = "step1_3_select_random" =>
                 /\ PromptsOf(step) = 2
                 /\ \A k \in 1..Len(out) :
                      out[k] = Plot("show_sources") =>
                          /\ Cardinality({ j \in PromptsAt : j < k }) = 1
                          /\ HasOp("exit") => Cardinality({ j \in PromptsAt : j > k }) = 1
                 /\ Cardinality(PromptsAt) = 2 =>
                      \E k \in 1..Len(out) : out[k] = Plot("show_sources")

\* step 1.3 has stopped the program after both of its prompts
C15_Witness ==
    /\ script = "demo"
    /\ executed # <<>>
    /\ executed[Len(executed)] = "step1_3_select_random"
    /\ status = Exited(0)
    /\ Cardinality(PromptsAt) = 2

(***************************************************************************)
(* The library as the utility functions use it                             *)
(***************************************************************************)
\* the value of a keyword argument, its default when the caller omits it
arg(args, key, default) == IF key \in DOMAIN args THEN args[key] ELSE default

\* sample of the built-in montages: the first channels of each
StandardMontages ==
    [biosemi16 |-> <<"Fp1", "Fp2", "F4">>,
     biosemi64 |-> <<"Fp1", "AF7", "AF3", "F1">>,
     standard_1020 |-> <<"Fp1", "Fpz", "Fp2", "AF9", "AF7">>]

\* mne.channels.make_standard_montage(kind)
make_standard_montage(kind) ==
    IF kind \in DOMAIN StandardMontages
    THEN Return([type |-> "DigMontage", kind |-> kind, ch_names |-> StandardMontages[kind]])
    ELSE Raise("ValueError", "Could not find the montage")

\* mne.create_info(ch_names, sfreq, ch_types) with one type for all channels
create_info(ch_names, sfreq, ch_types) ==
    [type |-> "Info", ch_names |-> ch_names, sfreq |-> sfreq,
     ch_types |-> [k \in 1..Len(ch_names) |-> ch_types], montage |-> None]

\* info.set_montage(montage): the montage is attached to the info itself
set_montage(info, montage) == [info EXCEPT !.montage = montage]

(***************************************************************************)
(* utils.py: info_from_montage                                             *)
(***************************************************************************)
\* the sampling frequency is not passed on to create_info
info_from_montage_fixed_sfreq(montage_name, sfreq) ==
    LET montage == make_standard_montage(montage_name)
    IN  IF montage.kind = "raise" THEN montage
        ELSE LET info == create_info(montage.value.ch_names, 250, "eeg")
             IN  Return(set_montage(info, montage.value))

info_from_montage(montage_name, sfreq) ==
    LET montage == make_standard_montage(montage_name)
    IN  IF montage.kind = "raise" THEN montage
        ELSE LET info == create_info(montage.value.ch_names, sfreq, "eeg")
             IN  Return(set_montage(info, montage.value))

\* sfreq=250 in the signature of info_from_montage
info_from_montage_sfreq == 250

(***************************************************************************)
(* SpecUtils: one call of a utility function                               *)
(***************************************************************************)
MontageNames == {"biosemi16", "biosemi64", "standard_1020", "no_such_montage"}

\* the sampling frequencies a caller passes
Sfreqs == {100, 500}

\* a call passes sfreq or leaves it out
SfreqArgs == { [montage_name |-> m] : m \in MontageNames }
             \cup { [montage_name |-> m, sfreq |-> f] : m \in MontageNames, f \in Sfreqs }

InitUtils ==
    /\ HelpersIdle
    /\ ScriptIdle

call_info_from_montage(args) ==
    /\ call = NoCall
    /\ call' = [fn |-> "info_from_montage", args |-> args]
    /\ result' = info_from_montage(args.montage_name,
                                   arg(args, "sfreq", info_from_montage_sfreq))
    /\ UNCHANGED <<fwd, brain, i_source>>
    /\ UNCHANGED scriptVars

\* C12: for a montage the library knows, info_from_montage returns an Info
\* whose channel names are those of the montage in the same order, all of
\* type "eeg", whose sampling frequency is the sfreq passed (250 when it is
\* left out), and to which the montage is attached.
C12_InfoFromMontage ==
    (call.fn = "info_from_montage"
       /\ call.args.montage_name \in DOMAIN StandardMontages) =>
        /\ result.kind = "return"
        /\ result.value.ch_names = StandardMontages[call.args.montage_name]
        /\ \A k \in 1..Len(result.value.ch_names) : result.value.ch_types[k] = "eeg"
        /\ Len(result.value.ch_types) = Len(result.value.ch_names)
        /\ result.value.sfreq
             = (IF "sfreq" \in DOMAIN call.args THEN call.args.sfreq ELSE 250)
        /\ result.value.montage.type = "DigMontage"
        /\ result.value.montage.kind = call.args.montage_name
        /\ result.value.montage.ch_names = result.value.ch_names

\* a call with a sampling frequency other than the default
C12_Witness ==
    /\ call.fn = "info_from_montage"
    /\ "sfreq" \in DOMAIN call.args
    /\ call.args.sfreq = 500
    /\ result.kind = "return"
    /\ Len(result.value.ch_names) = 5

(***************************************************************************)
(* utils.py: prepare_head_model                                            *)
(***************************************************************************)
\* Path(a) / b
path_join(a, b) == a \o "/" \o b

\* mne.setup_source_space(subject, spacing, subjects_dir, add_dist)
setup_source_space(subject, spacing, subjects_dir, add_dist) ==
    [type |-> "SourceSpaces", subject |-> subject, spacing |-> spacing,
     subjects_dir |-> subjects_dir, add_dist |-> add_dist]

\* mne.make_forward_solution(info, trans, src, bem, eeg=True, ...): free orientations
make_forward_solution(info, trans, s, bem) ==
    [type |-> "Forward", info |-> info, trans |-> trans, src |-> s, bem |-> bem,
     fixed |-> FALSE]

\* mne.convert_forward_solution(fwd, force_fixed)
convert_forward_solution(f, force_fixed) == [f EXCEPT !.fixed = force_fixed]

\* the forward solution is returned as it was made
prepare_head_model_body_unconverted ==
    << "mne.setup_source_space", "info_from_montage", "mne.make_forward_solution" >>

\* the calls of prepare_head_model, in the written order
prepare_head_model_body ==
    << "mne.setup_source_space", "info_from_montage", "mne.make_forward_solution",
       "mne.convert_forward_solution" >>

\* the frame after one call of the body has returned, or the exception it raised
prepare_head_model_exec(stmt, fr) ==
    CASE stmt = "mne.setup_source_space" ->
           Return([fr EXCEPT !.src = setup_source_space("fsaverage", fr.spacing,
                                                        fr.subjects_dir, FALSE)])
      [] stmt = "info_from_montage" ->
           LET info == info_from_montage(fr.montage, info_from_montage_sfreq)
           IN  IF info.kind = "raise" THEN info
               ELSE Return([fr EXCEPT !.info = info.value])
      [] stmt = "mne.make_forward_solution" ->
           LET fs_dir == path_join(fr.subjects_dir, "fsaverage")
               bem    == path_join(path_join(fs_dir, "bem"),
                                   "fsaverage-5120-5120-5120-bem-sol.fif")
               trans  == path_join(path_join(fs_dir, "bem"), "fsaverage-trans.fif")
           IN  Return([fr EXCEPT !.fwd = make_forward_solution(fr.info, trans, fr.src, bem)])
      [] stmt = "mne.convert_forward_solution" ->
           Return([fr EXCEPT !.fwd = convert_forward_solution(fr.fwd, TRUE)])

SubjectsDirs == {"/home/user/mne_data/MNE-fsaverage-data", "/data"}

Spacings == {"oct5", "oct6", "ico4"}

\* subjects_dir with or without spacing and montage
PrepareArgs ==
    { [subjects_dir |-> d] : d \in SubjectsDirs }
    \cup { [subjects_dir |-> d, spacing |-> sp] : d \in SubjectsDirs, sp \in Spacings }
    \cup { [subjects_dir |-> d, montage |-> m] : d \in SubjectsDirs, m \in MontageNames }
    \cup { [subjects_dir |-> d, spacing |-> sp, montage |-> m] :
             d \in SubjectsDirs, sp \in Spacings, m \in MontageNames }

\* prepare_head_model is entered
call_prepare_head_model(args) ==
    /\ call = NoCall
    /\ call' = [fn |-> "prepare_head_model", args |-> args]
    /\ frame' = [fn |-> "prepare_head_model", at |-> 1,
                 subjects_dir |-> args.subjects_dir,
                 spacing |-> arg(args, "spacing", "oct5"),
                 montage |-> arg(args, "montage", "biosemi64"),
                 src |-> None, info |-> None, fwd |-> None]
    /\ UNCHANGED <<fwd, result, brain, i_source>>
    /\ UNCHANGED <<script, filled, complete, pc, cur, out, bound, called, executed,
                   status, environ>>

\* the next call of prepare_head_model is made; after the last one the pair
\* (fwd, info) is returned
prepare_head_model_next ==
    /\ frame.fn = "prepare_head_model"
    /\ result = Pending
    /\ IF frame.at > Len(prepare_head_model_body)
       THEN /\ result' = Return(<<frame.fwd, frame.info>>)
            /\ UNCHANGED <<frame, out>>
       ELSE LET stmt == prepare_head_model_body[frame.at]
                r    == prepare_head_model_exec(stmt, frame)
            IN  IF r.kind = "raise"
                THEN /\ result' = r
                     /\ UNCHANGED <<frame, out>>
                ELSE /\ frame' = [r.value EXCEPT !.at = frame.at + 1]
                     /\ out' = Append(out, Lib(stmt))
                     /\ UNCHANGED result
    /\ UNCHANGED <<fwd, call, brain, i_source>>
    /\ UNCHANGED <<script, filled, complete, pc, cur, bound, called, executed,
                   status, environ>>

ClaimedPrepareCalls ==
    << "mne.setup_source_space", "info_from_montage", "mne.make_forward_solution",
       "mne.convert_forward_solution" >>

\* C16: prepare_head_model makes its calls in the order setup_source_space,
\* info_from_montage, make_forward_solution, convert_forward_solution, and
\* returns (fwd, info) where fwd has fixed orientations and was made from the
\* returned info and from the source space set up by the first call.
C16_PrepareHeadModelOrder ==
    call.fn = "prepare_head_model" =>
        /\ Len(out) <= 4
        /\ \A k \in 1..Len(out) : out[k] = Lib(ClaimedPrepareCalls[k])
        /\ result.kind = "return" =>
             /\ Len(out) = 4
             /\ result.value[1].type = "Forward"
             /\ result.value[1].fixed
             /\ result.value[2].type = "Info"
             /\ result.value[1].info = result.value[2]
             /\ result.value[2].ch_names
                  = StandardMontages[IF "montage" \in DOMAIN call.args
                                     THEN call.args.montage ELSE "biosemi64"]
             /\ result.value[1].src
                  = [type |-> "SourceSpaces", subject |-> "fsaverage",
                     spacing |-> (IF "spacing" \in DOMAIN call.args
                                  THEN call.args.spacing ELSE "oct5"),
                     subjects_dir |-> call.args.subjects_dir, add_dist |-> FALSE]

\* a head model with a spacing and a montage of the caller's choice
C16_Witness ==
    /\ call.fn = "prepare_head_model"
    /\ result.kind = "return"
    /\ result.value[1].src.spacing = "ico4"
    /\ Len(result.value[2].ch_names) = 5

(***************************************************************************)
(* demo.py: get_times                                                      *)
(***************************************************************************)
MaxSfreq == 3       \* sampling frequencies passed to get_times are 1..MaxSfreq
MaxDuration == 3    \* durations passed to get_times are 1..MaxDuration

\* np.arange(n) for an integer n >= 0
np_arange(n) == [shape |-> <<n>>, data |-> [k \in 1..n |-> k - 1]]

\* a / d for a one-dimensional array of integers and an integer d > 0
np_divide(a, d) ==
    [shape |-> a.shape, data |-> [k \in 1..a.shape[1] |-> Frac(a.data[k], d)]]

\* the end point is part of the vector
get_times_inclusive(sfreq, duration, compl) ==
    [times   |-> np_divide(np_arange(sfreq * duration + 1), sfreq),
     printed |-> IF ~compl
                 THEN << Div, P("First 10 time points:"), P("times[:10]"), Div >>
                 ELSE <<>>]

\* the vector returned and what is printed on the way
get_times(sfreq, duration, compl) ==
    [times   |-> np_divide(np_arange(sfreq * duration), sfreq),
     printed |-> IF ~compl
                 THEN << Div, P("First 10 time points:"), P("times[:10]"), Div >>
                 ELSE <<>>]

\* sfreq=250, duration=60 in the signature of get_times
get_times_sfreq == 250
get_times_duration == 60

\* any of sfreq, duration and complete is passed or left out
TimesArgs ==
    { [a \in keys |-> IF a = "sfreq" THEN f ELSE IF a = "duration" THEN d ELSE c] :
        keys \in SUBSET {"sfreq", "duration", "complete"},
        f \in 1..MaxSfreq, d \in 1..MaxDuration, c \in BOOLEAN }

call_get_times(args) ==
    /\ call = NoCall
    /\ call' = [fn |-> "get_times", args |-> args]
    /\ LET r == get_times(arg(args, "sfreq", get_times_sfreq),
                          arg(args, "duration", get_times_duration),
                          arg(args, "complete", FALSE))
       IN  /\ result' = Return(r.times)
           /\ out' = r.printed
    /\ UNCHANGED <<fwd, brain, i_source>>
    /\ UNCHANGED <<script, filled, complete, pc, cur, bound, called, executed,
                   status, environ, frame>>

\* C17: get_times returns sfreq * duration points, the k-th (from 0) being
\* k / sfreq: the first is 0, neighbours are 1 / sfreq apart (4 ms at 250 Hz),
\* the last is below duration; with the defaults there are 15000 points.
C17_TimesVector ==
    call.fn = "get_times" =>
        LET sfreq    == IF "sfreq" \in DOMAIN call.args THEN call.args.sfreq ELSE 250
            duration == IF "duration" \in DOMAIN call.args THEN call.args.duration ELSE 60
            n        == sfreq * duration
            t        == result.value.data
        IN  /\ result.kind = "return"
            /\ result.value.shape = <<n>>
            /\ Len(t) = n
            /\ t[1] = [num |-> 0, den |-> 1]
            /\ \A k \in 0..(n - 1) :
                 /\ t[k + 1].den > 0
                 /\ t[k + 1].num * sfreq = k * t[k + 1].den
            /\ \A k \in 1..(n - 1) :
                 (t[k + 1].num * t[k].den - t[k].num * t[k + 1].den) * sfreq
                     = t[k].den * t[k + 1].den
            /\ t[n].num < duration * t[n].den
            /\ "sfreq" \notin DOMAIN call.args =>
                 \A k \in 1..(n - 1) :
                     (t[k + 1].num * t[k].den - t[k].num * t[k + 1].den) * 1000
                         = 4 * t[k].den * t[k + 1].den
            /\ DOMAIN call.args \subseteq {"complete"} => n = 15000

\* the call with the defaults
C17_Witness ==
    /\ call.fn = "get_times"
    /\ DOMAIN call.args = {}
    /\ result.kind = "return"
    /\ Len(result.value.data) = 15000
    /\ result.value.data[15000] = [num |-> 14999, den |-> 250]

(***************************************************************************)
(* The simulation library as simulate_point uses it                        *)
(***************************************************************************)
\* SourceSimulator(src): nothing added yet
SourceSimulator(s) == [type |-> "SourceSimulator", src |-> s, groups |-> <<>>]

\* sim.add_patch_sources(location, waveform, names), extents left out: each
\* patch consists of the vertices given
add_patch_sources(sim, location, waveform, names) ==
    [sim EXCEPT !.groups = Append(@, [kind |-> "patch", location |-> location,
                                      waveform |-> waveform, names |-> names])]

\* the sources of the groups, in the order they were added
RECURSIVE sources_of(_)
sources_of(groups) ==
    IF groups = <<>> THEN <<>>
    ELSE LET g == Head(groups)
         IN  [k \in 1..Len(g.location) |->
                 [name |-> g.names[k], kind |-> g.kind, vertices |-> <<g.location[k]>>]]
             \o sources_of(Tail(groups))

\* sim.simulate(sfreq, duration)
simulate(sim, sfreq, duration) ==
    [type |-> "SourceConfiguration", sfreq |-> sfreq, duration |-> duration,
     sources |-> sources_of(sim.groups)]

(***************************************************************************)
(* patch_cancellation.py: simulate_point                                   *)
(***************************************************************************)
\* 02_hands_on: the body is the placeholder; a function without return gives None
simulate_point_hands_on(f, hemi_idx, vertno) ==
    LET r == FILL_ME("Implement the simulation of one point source")
    IN  IF r.kind = "raise" THEN r ELSE Return(None)

\* _solutions/02_hands_on
simulate_point_solution(f, hemi_idx, vertno) ==
    LET s    == f.src
        sim0 == SourceSimulator(s)
        sim1 == add_patch_sources(sim0, << <<hemi_idx, vertno>> >>,
                                  "one_over_f_noise", <<"target">>)
    IN  Return(simulate(sim1, 250, 10))

simulate_point(variant, f, hemi_idx, vertno) ==
    IF variant = "hands_on"
    THEN simulate_point_hands_on(f, hemi_idx, vertno)
    ELSE simulate_point_solution(f, hemi_idx, vertno)

PointVariants == {"hands_on", "solution"}

\* the vertex of main() and another one
PointLocations == {0, 1} \X {0, 76290}

call_simulate_point(variant, hemi_idx, vertno) ==
    /\ call = NoCall
    /\ call' = [fn |-> "simulate_point", variant |-> variant,
                hemi_idx |-> hemi_idx, vertno |-> vertno]
    /\ result' = simulate_point(variant, fwd, hemi_idx, vertno)
    /\ UNCHANGED <<fwd, brain, i_source>>
    /\ UNCHANGED scriptVars

NextUtils ==
    \/ \E args \in SfreqArgs : call_info_from_montage(args)
    \/ \E args \in PrepareArgs : call_prepare_head_model(args)
    \/ prepare_head_model_next
    \/ \E args \in TimesArgs : call_get_times(args)
    \/ \E variant \in PointVariants, loc \in PointLocations :
           call_simulate_point(variant, loc[1], loc[2])

SpecUtils == InitUtils /\ [][NextUtils]_vars

\* C13: the implemented simulate_point returns a SourceConfiguration with
\* exactly one source: a point source at (hemi_idx, vertno) named "target".
C13_SimulatePointIsPoint ==
    (call.fn = "simulate_point" /\ call.variant = "solution") =>
        /\ result.kind = "return"
        /\ result.value.type = "SourceConfiguration"
        /\ Len(result.value.sources) = 1
        /\ result.value.sources[1].name = "target"
        /\ result.value.sources[1].vertices = << <<call.hemi_idx, call.vertno>> >>
        /\ result.value.sources[1].kind = "point"

====
